---- MODULE Spec2Model ----
(***************************************************************************)
(* The mix assembly engine of swingmusic: MixesPlugin of                   *)
(* src/app/plugins/mixes.py.                                               *)
(*                                                                         *)
(* The plugin object is the state machine.  Its methods are the actions:   *)
(* the constructor (ping_server), the calls of get_track_mix,              *)
(* fallback_create_artist_mix, create_artist_mix and download_artist_image *)
(* on drawn inputs, and one run of create_artist_mixes, which is a loop    *)
(* and advances one loop iteration per step.                               *)
(***************************************************************************)
EXTENDS Integers, Sequences, FiniteSets

VARIABLES
    pc,        \* where the plugin is: "new", "unconstructed", "idle", "returned" (a direct
               \* call was made), "enter", "loop", "done", "crashed", "blocked"
    active,    \* Plugin.set_active(server_online): the startup connectivity flag
    call,      \* the last method call made on the idle plugin, with its inputs and outcome
    i,         \* create_artist_mixes: index (1..4) of the window being processed
    limit,     \* create_artist_mixes: the local `limit` of the current window
    limits,    \* the limit each window was entered with (history of `limit`)
    created,   \* create_artist_mixes: period["created"] of each window
    indexed,   \* create_artist_mixes: the run-wide set `indexed`
    mixes,     \* create_artist_mixes: the list `mixes`
    step       \* create_artist_mixes: what the last loop iteration did

vars == <<pc, active, call, i, limit, limits, created, indexed, mixes, step>>

---------------------------------------------------------------------------
(* Program constants. *)

MAX_TRACKS_TO_FETCH == 5
TRACK_MIX_LENGTH == 50
MIN_TRACK_MIX_LENGTH == 15
HTTP_TIMEOUT == 10

(* The four windows of create_artist_mixes, in dict (insertion) order. *)
PeriodNames == <<"today", "last_2_days", "last_7_days", "last_1_month">>
PeriodMax == <<3, 2, 3, 2>>
NumPeriods == Len(PeriodNames)

---------------------------------------------------------------------------
(* Bounds of the model. *)

\* longest list of freely drawn local tracks
MaxVarTracks == 3
\* longest freely drawn part of a remote response
MaxResp == 2
\* how many tracks more than TRACK_MIX_LENGTH a remote response can resolve
MaxExtra == 5
\* largest limit fallback_create_artist_mix is called with directly
MaxLimit == 3
\* artists of the artist repository that can get a mix in a run
NumArtists == 11
\* longest tracklist get_mix_description is called with directly
MaxDescTracks == 5

---------------------------------------------------------------------------
(* Sequence helpers: Python list operations used by the code. *)

Range(s) == {s[k] : k \in 1..Len(s)}

\* list.index(x): the first position of x
IndexOf(s, x) == CHOOSE k \in 1..Len(s) : s[k] = x /\ \A j \in 1..(k - 1) : s[j] # x

\* s[:n]
Take(s, n) == SubSeq(s, 1, IF n < Len(s) THEN n ELSE Len(s))

\* reversed(s).  (\o <<>> holds a list as a tuple.)
Reverse(s) == [k \in 1..Len(s) |-> s[Len(s) + 1 - k]] \o <<>>

\* sorted(s, key): the element at position p goes after every element with a
\* smaller key and after the earlier elements with the same key (a stable sort).
\* keys[p] is the key of s[p].
StableSort(s, keys) ==
    LET n == Len(s)
        rank == [p \in 1..n |->
                   Cardinality({q \in 1..n : keys[q] < keys[p] \/ (keys[q] = keys[p] /\ q < p)})]
                \o <<>>
        at == [k \in 1..n |-> CHOOSE p \in 1..n : rank[p] = k - 1] \o <<>>
    IN  [k \in 1..n |-> s[at[k]]] \o <<>>

\* sorted(trackmatches, key=lambda x: trackhashes.index(x.weakhash))
SortedByIndex(s, trackhashes) ==
    StableSort(s, [p \in 1..Len(s) |-> IndexOf(trackhashes, s[p].weakhash)] \o <<>>)

\* sorted(tracks, key=lambda x: x.playduration, reverse=True): with reverse the
\* sort is descending and still stable
SortedByPlayDuration(s) ==
    StableSort(s, [p \in 1..Len(s) |-> 0 - s[p].playduration] \o <<>>)

---------------------------------------------------------------------------
(* The repositories (TrackStore, AlbumStore, ArtistStore): a record           *)
(*   tracks:  the flat track list, each [trackhash, weakhash, bitrate,        *)
(*            artisthash, playduration] (artisthash is track.artists[0]),     *)
(*   albums:  albummap.values(), each [weakhash, trackhashes],                *)
(*   artists: artistmap.values(), each [artisthash, trackhashes].            *)

Track(th, wh, br, ah, pd) ==
    [trackhash |-> th, weakhash |-> wh, bitrate |-> br, artisthash |-> ah, playduration |-> pd]

\* TrackStore.get_flat_list()
get_flat_list(repo) == repo.tracks

\* TrackStore.get_tracks_by_trackhashes(trackhashes): the known tracks among the
\* hashes, in the order of the hashes.
RECURSIVE get_tracks_by_trackhashes(_, _)
get_tracks_by_trackhashes(repo, trackhashes) ==
    IF trackhashes = <<>> THEN <<>>
    ELSE LET found == SelectSeq(repo.tracks, LAMBDA t : t.trackhash = Head(trackhashes))
         IN  (IF found = <<>> THEN <<>> ELSE <<found[1]>>)
             \o get_tracks_by_trackhashes(repo, Tail(trackhashes))

\* ArtistStore.get_artist_by_hash(artisthash): the entry, or <<>> for None
get_artist_by_hash(repo, artisthash) ==
    SelectSeq(repo.artists, LAMBDA a : a.artisthash = artisthash)

WeakHashes(tracks) == {tracks[k].weakhash : k \in 1..Len(tracks)}

---------------------------------------------------------------------------
(* get_track_mix, lines 91-105: the remote-derived part of the tracklist. *)

\* [t for t in trackmatches if t.weakhash in trackhashes]
LocalMatches(flat, trackhashes) ==
    LET hashes == Range(trackhashes)
    IN  SelectSeq(flat, LAMBDA t : t.weakhash \in hashes)

\* the keys of `grouped`, in dict insertion order (first appearance)
GroupKeys(tracks) ==
    LET firsts == SelectSeq([p \in 1..Len(tracks) |-> p],
                            LAMBDA p : \A q \in 1..(p - 1) :
                                         tracks[q].weakhash # tracks[p].weakhash)
    IN  [k \in 1..Len(firsts) |-> tracks[firsts[k]].weakhash] \o <<>>

\* grouped[w]
Group(tracks, w) == SelectSeq(tracks, LAMBDA t : t.weakhash = w)

\* a variant of MaxBitrate that takes the first track of the group
FirstOfGroup(group) == group[1]

\* max(group, key=lambda x: x.bitrate): the first track of the highest bitrate
MaxBitrate(group) ==
    group[CHOOSE k \in 1..Len(group) :
            /\ \A j \in 1..Len(group) : group[j].bitrate <= group[k].bitrate
            /\ \A j \in 1..(k - 1) : group[j].bitrate < group[k].bitrate]

\* lines 91-105: filter, group by weakhash, keep the best of each group, sort by
\* the position of the weakhash in the response
TrackMatches(flat, trackhashes) ==
    LET matches == LocalMatches(flat, trackhashes)
        keys == GroupKeys(matches)
    IN  SortedByIndex([k \in 1..Len(keys) |-> MaxBitrate(Group(matches, keys[k]))] \o <<>>,
                      trackhashes)

---------------------------------------------------------------------------
(* fallback_create_artist_mix, lines 304-357.  random.sample makes the     *)
(* result a choice: the operators yield the set of lists the call can      *)
(* return.                                                                 *)

\* a variant of LimitReached that stops one track late
LimitExceeded(mixtracks, lim) == Len(mixtracks) > lim

\* if len(mixtracks) >= limit
LimitReached(mixtracks, lim) == Len(mixtracks) >= lim

\* [t for t in TrackStore.get_tracks_by_trackhashes(match.trackhashes)
\*    if t.weakhash not in omit_trackhashes]
CandidateTracks(repo, match, omit_trackhashes) ==
    SelectSeq(get_tracks_by_trackhashes(repo, match.trackhashes),
              LAMBDA t : t.weakhash \notin omit_trackhashes)

\* the second loop, over artistmatches (lines 337-357)
RECURSIVE ArtistPhase(_, _, _, _, _)
ArtistPhase(repo, artistmatches, mixtracks, omit_trackhashes, lim) ==
    IF artistmatches = <<>> THEN {mixtracks}
    ELSE IF LimitReached(mixtracks, lim) THEN {mixtracks}
    ELSE LET artisttracks == CandidateTracks(repo, Head(artistmatches), omit_trackhashes)
         IN  IF Len(artisttracks) = 0
             THEN ArtistPhase(repo, Tail(artistmatches), mixtracks, omit_trackhashes, lim)
             ELSE UNION {ArtistPhase(repo, Tail(artistmatches), Append(mixtracks, sample),
                                     omit_trackhashes, lim) : sample \in Range(artisttracks)}

\* the first loop, over albummatches (lines 311-329), followed by the second
RECURSIVE AlbumPhase(_, _, _, _, _, _)
AlbumPhase(repo, albummatches, artistmatches, mixtracks, omit_trackhashes, lim) ==
    IF albummatches = <<>>
    THEN ArtistPhase(repo, artistmatches, mixtracks, omit_trackhashes, lim)
    ELSE IF LimitReached(mixtracks, lim) THEN {mixtracks}
    ELSE LET albumtracks == CandidateTracks(repo, Head(albummatches), omit_trackhashes)
         IN  IF Len(albumtracks) = 0
             THEN AlbumPhase(repo, Tail(albummatches), artistmatches, mixtracks,
                             omit_trackhashes, lim)
             ELSE UNION {AlbumPhase(repo, Tail(albummatches), artistmatches,
                                    Append(mixtracks, sample), omit_trackhashes, lim)
                         : sample \in Range(albumtracks)}

fallback_create_artist_mix(repo, similar_albums, similar_artists, omit_trackhashes, lim) ==
    LET albummatches == SelectSeq(repo.albums, LAMBDA a : a.weakhash \in Range(similar_albums))
        artistmatches == SelectSeq(repo.artists,
                                   LAMBDA a : a.artisthash \in Range(similar_artists))
    IN  AlbumPhase(repo, albummatches, artistmatches, <<>>, omit_trackhashes, lim)

---------------------------------------------------------------------------
(* The outbound HTTP calls.  What the remote server does is an input:      *)
(*   "ok"           it answers 200 with a well-formed payload              *)
(*   "garbage"      it answers 200 with a payload that cannot be decoded   *)
(*   "error_status" it answers an error status with a JSON error object    *)
(*   "refused"      the connection fails                                   *)
(*   "no_route"     the connection attempt gets no answer                  *)
(*   "stall"        it accepts the connection and never answers            *)

ServerBehaviours == {"ok", "garbage", "error_status", "refused", "no_route", "stall"}

\* timeout=<seconds>, and the absent timeout argument (requests then waits forever)
Timeout(seconds) == [bounded |-> TRUE, seconds |-> seconds]
NoTimeout == [bounded |-> FALSE, seconds |-> 0]

\* requests.get / requests.post: "response", the exception raised, or "blocked"
\* when the call never returns.  ConnectTimeout and ReadTimeout are raised only
\* for a call that passes a timeout.
Requests(server, timeout) ==
    CASE server = "refused" -> "ConnectionError"
      [] server = "no_route" -> IF timeout.bounded THEN "ConnectTimeout" ELSE "ConnectionError"
      [] server = "stall" -> IF timeout.bounded THEN "ReadTimeout" ELSE "blocked"
      [] OTHER -> "response"

\* except requests.exceptions.ConnectionError: the class and its subclasses.
\* ConnectTimeout derives from ConnectionError and Timeout, ReadTimeout from
\* Timeout alone.
IsConnectionError(r) == r \in {"ConnectionError", "ConnectTimeout"}

\* the timeout argument of each outbound call (lines 44, 76, 255)
PingTimeout == Timeout(HTTP_TIMEOUT)
RadioTimeout == Timeout(HTTP_TIMEOUT)
ImageTimeout == NoTimeout

\* ping_server (lines 42-49)
ping_server(server) ==
    LET r == Requests(server, PingTimeout)
    IN  IF IsConnectionError(r) THEN [kind |-> "return", value |-> FALSE, exc |-> "none"]
        ELSE IF r = "response" THEN [kind |-> "return", value |-> TRUE, exc |-> "none"]
        ELSE [kind |-> "raise", value |-> FALSE, exc |-> r]

\* plugin_method: the decorator of get_track_mix, get_artist_mix and
\* create_artist_mixes.  With the plugin inactive the method body does not run
\* and the call yields the empty result.
plugin_method(isActive, outcomes, inactive) == IF isActive THEN outcomes ELSE {inactive}

\* balance_mix: an external, pure reordering of the tracklist
balance_mix(tracks) == Reverse(tracks)

---------------------------------------------------------------------------
(* get_track_mix (lines 52-119).  An outcome records what the call returned *)
(* or raised, the remote-derived list, the filler tracks, and whether the   *)
(* request was sent and the fallback sampler called.                        *)

TrackMixReturn(value, trackmatches, filler, posted, fallback) ==
    [kind |-> "return", value |-> value, exc |-> "none", trackmatches |-> trackmatches,
     filler |-> filler, posted |-> posted, fallback |-> fallback]

TrackMixRaise(exc, trackmatches, posted) ==
    [kind |-> "raise", value |-> <<>>, exc |-> exc, trackmatches |-> trackmatches,
     filler |-> <<>>, posted |-> posted, fallback |-> FALSE]

\* if len(trackmatches) < self.TRACK_MIX_LENGTH
NeedsFiller(trackmatches) == Len(trackmatches) < TRACK_MIX_LENGTH

\* lines 89-119: from the decoded response to the returned list
AssembleTrackMix(tracks, repo, results) ==
    LET trackhashes == results.tracks
        trackmatches == TrackMatches(get_flat_list(repo), trackhashes)
    IN  IF NeedsFiller(trackmatches)
        THEN IF tracks = <<>>
             THEN {TrackMixRaise("IndexError", trackmatches, TRUE)}
             ELSE {TrackMixReturn(balance_mix(trackmatches \o filler_tracks), trackmatches,
                                  filler_tracks, TRUE, TRUE)
                   : filler_tracks \in
                       fallback_create_artist_mix(repo, results.albums, results.artists,
                                                  WeakHashes(trackmatches),
                                                  TRACK_MIX_LENGTH - Len(trackmatches))}
        ELSE {TrackMixReturn(balance_mix(trackmatches), trackmatches, <<>>, TRUE, FALSE)}

\* lines 75-89: the request, the handled exceptions, the decoding
TrackMixBody(tracks, repo, server, results) ==
    LET r == Requests(server, RadioTimeout)
    IN  IF IsConnectionError(r) THEN {TrackMixReturn(<<>>, <<>>, <<>>, TRUE, FALSE)}
        ELSE IF r # "response" THEN {TrackMixRaise(r, <<>>, TRUE)}
        ELSE IF server = "garbage" THEN {TrackMixReturn(<<>>, <<>>, <<>>, TRUE, FALSE)}
        ELSE IF server = "error_status" THEN {TrackMixRaise("KeyError", <<>>, TRUE)}
        ELSE AssembleTrackMix(tracks, repo, results)

get_track_mix(isActive, tracks, repo, server, results) ==
    plugin_method(isActive, TrackMixBody(tracks, repo, server, results),
                  TrackMixReturn(<<>>, <<>>, <<>>, FALSE, FALSE))

\* get_artist_mix (lines 122-131)
get_artist_mix(isActive, artisthash, repo, server, results) ==
    LET found == get_artist_by_hash(repo, artisthash)
        tracks == SortedByPlayDuration(get_tracks_by_trackhashes(repo, found[1].trackhashes))
    IN  plugin_method(isActive,
            IF found = <<>> THEN {TrackMixRaise("KeyError", <<>>, FALSE)}
            ELSE get_track_mix(isActive, Take(tracks, MAX_TRACKS_TO_FETCH), repo, server,
                               results),
            TrackMixReturn(<<>>, <<>>, <<>>, FALSE, FALSE))

---------------------------------------------------------------------------
(* download_artist_image (lines 253-280): the colors, <<>> for None, the   *)
(* exception raised, or "blocked".                                         *)

download_artist_image(imageserver) ==
    LET r == Requests(imageserver, ImageTimeout)
    IN  IF IsConnectionError(r) THEN [kind |-> "return", value |-> <<>>, exc |-> "none"]
        ELSE IF r = "blocked" THEN [kind |-> "blocked", value |-> <<>>, exc |-> "none"]
        ELSE IF r # "response" THEN [kind |-> "raise", value |-> <<>>, exc |-> r]
        ELSE IF imageserver = "ok"
             THEN [kind |-> "return", value |-> <<"color">>, exc |-> "none"]
        ELSE IF imageserver = "garbage"
             THEN [kind |-> "raise", value |-> <<>>, exc |-> "UnidentifiedImageError"]
        ELSE [kind |-> "return", value |-> <<>>, exc |-> "none"]

---------------------------------------------------------------------------
(* create_artist_mix (lines 218-251).  An outcome is a Mix ("mix"), None    *)
(* ("none"), an exception ("raise") or a call that never returns            *)
(* ("blocked"); tracklist is the list get_artist_mix returned.              *)

\* Mix(id=f"a{artisthash}", title=..., tracks=[t.trackhash ...], extra={...}).
\* The artwork (extra["image"]) and the description are left out of the record.
Mix(artist, mix_tracks) ==
    [id |-> <<"a", artist.artisthash>>,
     title |-> <<artist.artist, " Radio">>,
     tracks |-> [k \in 1..Len(mix_tracks) |-> mix_tracks[k].trackhash] \o <<>>,
     extra |-> [type |-> "artist", artisthash |-> artist.artisthash]]

NoMix == [id |-> <<>>]

ArtistMixOutcome(kind, mix, exc, tracklist, trackmix, imageserver) ==
    [kind |-> kind, mix |-> mix, exc |-> exc, tracklist |-> tracklist, trackmix |-> trackmix,
     imageserver |-> imageserver]

\* a variant of TooShort that accepts a mix one track short
TooShortOffByOne(mix_tracks) == Len(mix_tracks) < MIN_TRACK_MIX_LENGTH - 1

\* a variant of TooShort that accepts every mix
TooShortNever(mix_tracks) == FALSE

\* if len(mix_tracks) < self.MIN_TRACK_MIX_LENGTH
TooShort(mix_tracks) == Len(mix_tracks) < MIN_TRACK_MIX_LENGTH

\* lines 229-251, for one outcome of get_artist_mix and one behaviour of the
\* image server ("unused" where the image is not requested)
FinishArtistMix(artist, tm, imageserver) ==
    LET img == download_artist_image(imageserver)
    IN  IF img.kind = "blocked"
        THEN ArtistMixOutcome("blocked", NoMix, "none", tm.value, tm, imageserver)
        ELSE IF img.kind = "raise"
        THEN ArtistMixOutcome("raise", NoMix, img.exc, tm.value, tm, imageserver)
        ELSE ArtistMixOutcome("mix", Mix(artist, tm.value), "none", tm.value, tm, imageserver)

\* lines 227-251, for one outcome of get_artist_mix
CheckArtistMix(artist, tm, imageservers) ==
    IF tm.kind = "raise" THEN {ArtistMixOutcome("raise", NoMix, tm.exc, <<>>, tm, "unused")}
    ELSE IF TooShort(tm.value)
    THEN {ArtistMixOutcome("none", NoMix, "none", tm.value, tm, "unused")}
    ELSE {FinishArtistMix(artist, tm, imageserver) : imageserver \in imageservers}

\* create_artist_mix; imageservers are the behaviours the image server can show
create_artist_mix(isActive, artist, repo, server, results, imageservers) ==
    LET found == get_artist_by_hash(repo, artist.artisthash)
    IN  IF found = <<>>
        THEN {ArtistMixOutcome("none", NoMix, "none", <<>>,
                               TrackMixReturn(<<>>, <<>>, <<>>, FALSE, FALSE), "unused")}
        ELSE UNION {CheckArtistMix(artist, tm, imageservers)
                    : tm \in get_artist_mix(isActive, artist.artisthash, repo, server, results)}

---------------------------------------------------------------------------
(* get_mix_description (lines 193-216).  A track is given by track.artists,  *)
(* a list of artist dicts [artisthash, name]; the description is the list of *)
(* the pieces the f-string and the join put together.                        *)

\* a variant of IsNewCoArtist that does not look at what was collected already
IsNewCoArtistRepeated(artist, artishash, done) == artist.artisthash # artishash

\* lines 203-206: the first artist of the track is not the subject of the mix
\* and was not collected yet
IsNewCoArtist(artist, artishash, done) ==
    /\ artist.artisthash # artishash
    /\ artist.artisthash \notin done

\* lines 198-208: the loop over the tracks, from the lists collected so far
RECURSIVE FirstArtists(_, _, _, _)
FirstArtists(tracks, artishash, first_4_artists, done) ==
    IF tracks = <<>> THEN first_4_artists
    ELSE LET artist == Head(tracks).artists[1]
         IN  IF Len(first_4_artists) < 4 /\ IsNewCoArtist(artist, artishash, done)
             THEN FirstArtists(Tail(tracks), artishash, Append(first_4_artists, artist),
                               done \cup {artist.artisthash})
             ELSE FirstArtists(Tail(tracks), artishash, first_4_artists, done)

\* ', '.join(a['name'] for a in first_4_artists)
RECURSIVE JoinNames(_)
JoinNames(artists) ==
    IF artists = <<>> THEN <<>>
    ELSE IF Len(artists) = 1 THEN <<artists[1].name>>
    ELSE <<artists[1].name, ", ">> \o JoinNames(Tail(artists))

\* lines 210-216: the three sentences; tracks[0] of an empty list raises
get_mix_description(tracks, artishash) ==
    LET first_4_artists == FirstArtists(tracks, artishash, <<>>, {})
    IN  IF Len(first_4_artists) = 4
        THEN [kind |-> "return", exc |-> "none",
              value |-> <<"Featuring ">> \o JoinNames(first_4_artists) \o <<" and more">>]
        ELSE IF Len(first_4_artists) > 0
        THEN [kind |-> "return", exc |-> "none",
              value |-> <<"Featuring ">> \o JoinNames(first_4_artists)]
        ELSE IF tracks = <<>>
        THEN [kind |-> "raise", exc |-> "IndexError", value |-> <<>>]
        ELSE [kind |-> "return", exc |-> "none",
              value |-> <<"Featuring ", tracks[1].artists[1].name>>]

---------------------------------------------------------------------------
(* create_artist_mixes (lines 134-191): the pieces of one loop iteration. *)

\* a variant of PeriodLimit that also passes on what the window before the
\* previous one left unused
PeriodLimitTransitive(k, made) ==
    LET unused(j) == IF j >= 1 /\ made[j] < PeriodMax[j] THEN PeriodMax[j] - made[j] ELSE 0
    IN  PeriodMax[k] + unused(k - 1) + unused(k - 2)

\* lines 169-174: the limit of window k, given the counters so far
PeriodLimit(k, made) ==
    IF k > 1 /\ made[k - 1] < PeriodMax[k - 1]
    THEN PeriodMax[k] + (PeriodMax[k - 1] - made[k - 1])
    ELSE PeriodMax[k]

\* a variant of QuotaReached that breaks one mix late
QuotaExceeded(made, k, lim) == made[k] > lim

\* if period["created"] >= limit: break
QuotaReached(made, k, lim) == made[k] >= lim

\* a variant of AlreadyIndexed that never skips a candidate
AlreadyIndexedNever(artisthash, done) == FALSE

\* if artist["artisthash"] in indexed: continue
AlreadyIndexed(artisthash, done) == artisthash \in done

\* if mix: mixes.append(mix)
MixesAfter(list, out) == IF out.kind = "mix" THEN Append(list, out.mix) ELSE list

\* a variant of IndexedAfter that marks the artist whether or not a mix was made
IndexedAfterAlways(done, artisthash, out) == done \cup {artisthash}

\* if mix: indexed.add(artist["artisthash"])
IndexedAfter(done, artisthash, out) ==
    IF out.kind = "mix" THEN done \cup {artisthash} ELSE done

\* if mix: period["created"] += 1
CreatedAfter(made, k, out) ==
    IF out.kind = "mix" THEN [made EXCEPT ![k] = @ + 1] ELSE made

---------------------------------------------------------------------------
(* The inputs of the calls. *)

Bitrates == {128, 320}
VarWeakHashes == {1, 2}
\* a weak hash of the response that no local track has
UnknownWeakHashes == {9}
BulkHash(k) == 1000 + k
OwnHash(a, k) == 2000 + 10 * a + k

RECURSIVE SeqsUpTo(_, _)
SeqsUpTo(S, n) ==
    IF n = 0 THEN {<<>>}
    ELSE LET shorter == SeqsUpTo(S, n - 1)
         IN  shorter \cup {Append(q, x) : q \in shorter, x \in S}

\* the freely drawn local tracks: the track at position p has trackhash p,
\* belongs to album (p + 1) \div 2 and to artist 1 (p odd) or 2 (p even)
VarTrackLists == SeqsUpTo(VarWeakHashes \X Bitrates, MaxVarTracks)

VarTracks(vt) ==
    [p \in 1..Len(vt) |-> Track(p, vt[p][1], vt[p][2], 2 - (p % 2), p % 3)]

\* the bulk of the library: tracks of distinct recordings
BulkTracks(n) ==
    [k \in 1..n |-> Track(BulkHash(k), BulkHash(k), 320, BulkHash(k % 4), k % 5)]

BulkHashes(n) == [k \in 1..n |-> BulkHash(k)]

LibrarySize == TRACK_MIX_LENGTH + MaxExtra

\* the artists of the repository of the direct calls
ArtistHashes == {1, 2}

\* the repository of the direct calls
CallRepo(vt) ==
    [tracks |-> VarTracks(vt) \o BulkTracks(LibrarySize),
     albums |-> <<[weakhash |-> 1, trackhashes |-> <<1, 2>>],
                  [weakhash |-> 2, trackhashes |-> <<3, 4>>]>>,
     artists |-> <<[artisthash |-> 1, name |-> "A1", image |-> "1.webp", color |-> "",
                    trackhashes |-> <<1, 3>>],
                   [artisthash |-> 2, name |-> "A2", image |-> "2.webp", color |-> "",
                    trackhashes |-> <<2, 4>>]>>]

\* the similar-album and similar-artist hints of a response
SimilarLists == {<<>>, <<1>>, <<2>>, <<2, 1>>}

\* lists of local tracks on which the length cases are drawn
FixedTrackLists ==
    {<<>>,
     <<<<1, 128>>, <<2, 128>>, <<2, 320>>>>,
     <<<<1, 320>>, <<1, 128>>, <<2, 128>>>>}

\* how many bulk recordings a response names: around both thresholds
BulkCounts ==
    {0, MIN_TRACK_MIX_LENGTH - 2, MIN_TRACK_MIX_LENGTH - 1, MIN_TRACK_MIX_LENGTH,
     TRACK_MIX_LENGTH - 2, TRACK_MIX_LENGTH - 1, TRACK_MIX_LENGTH, LibrarySize}

CallInput(vt, tracks, albums, artists, server) ==
    [vt |-> vt, results |-> [tracks |-> tracks, albums |-> albums, artists |-> artists],
     server |-> server]

\* responses over freely drawn local tracks: duplicates, order, unknown hashes
OrderInputs ==
    {CallInput(vt, r, <<1, 2>>, <<1, 2>>, "ok")
     : vt \in VarTrackLists, r \in SeqsUpTo(VarWeakHashes \cup UnknownWeakHashes, MaxResp)}

\* responses of every length around the thresholds, with every hint
LengthInputs ==
    {CallInput(vt, BulkHashes(n), sa, sr, "ok")
     : vt \in FixedTrackLists, n \in BulkCounts, sa \in SimilarLists, sr \in SimilarLists}

\* every behaviour of the server
ServerInputs ==
    {CallInput(<<<<1, 128>>>>, <<1>>, <<>>, <<>>, server) : server \in ServerBehaviours}

TrackMixInputs == OrderInputs \cup LengthInputs \cup ServerInputs

\* the seed tracks of a direct get_track_mix call: the first tracks of the library
SeedTracks(repo) == Take(repo.tracks, MAX_TRACKS_TO_FETCH)

\* the artist dicts get_artists_in_period returns
ArtistDict(a) == [artisthash |-> a, artist |-> <<"Artist", a>>]

\* artists of the play history that are no longer in the artist repository
RemovedArtists == {0}

---------------------------------------------------------------------------
(* The repository of a run of create_artist_mixes: artists 1..NumArtists,   *)
(* each with its own tracks, and the bulk.                                   *)

OwnCount(a) == 1 + (a % 7)

OwnHashes(a) == [k \in 1..OwnCount(a) |-> OwnHash(a, k)]

OwnTracks(a) ==
    [k \in 1..OwnCount(a) |-> Track(OwnHash(a, k), OwnHash(a, k), 320, a, (3 * k) % 5)]

RECURSIVE AllOwnTracks(_)
AllOwnTracks(n) == IF n = 0 THEN <<>> ELSE AllOwnTracks(n - 1) \o OwnTracks(n)

RunRepo ==
    [tracks |-> BulkTracks(MIN_TRACK_MIX_LENGTH) \o AllOwnTracks(NumArtists),
     albums |-> <<>>,
     artists |-> [a \in 1..NumArtists |->
                    [artisthash |-> a, name |-> <<"Artist", a>>, image |-> <<a, ".webp">>,
                     color |-> "", trackhashes |-> OwnHashes(a)]]]

\* the responses the remote can give for artist a in a run: one that resolves
\* to one track less than the minimum, and one that resolves to enough
RunResults(a) ==
    {[tracks |-> BulkHashes(MIN_TRACK_MIX_LENGTH - 1), albums |-> <<>>, artists |-> <<>>],
     [tracks |-> (IF a % 2 = 0 THEN <<OwnHash(a, 1)>> ELSE <<>>)
                 \o BulkHashes(MIN_TRACK_MIX_LENGTH),
      albums |-> <<>>, artists |-> <<>>]}

\* the next candidate of the current window.  Artists that have no mix yet are
\* interchangeable, so the lowest of them stands for any of them.
Candidates(done) ==
    LET fresh == (1..NumArtists) \ done
    IN  done \cup RemovedArtists
             \cup (IF fresh = {} THEN {} ELSE {CHOOSE a \in fresh : \A b \in fresh : a <= b})

\* the artists of the tracks a description is made of: artist 6 has the name
\* of artist 2
ArtistNames == <<"A", "B", "C", "D", "E", "B">>

DescArtist(h) == [artisthash |-> h, name |-> ArtistNames[h]]

\* track.artists of the tracks: one artist, or artist 1 featuring artist 2
DescTrackArtists ==
    {<<DescArtist(h)>> : h \in 1..Len(ArtistNames)} \cup {<<DescArtist(1), DescArtist(2)>>}

DescTrackLists == SeqsUpTo({[artists |-> a] : a \in DescTrackArtists}, MaxDescTracks)

\* the subjects of the mixes described
DescSubjects == {1, 2}

---------------------------------------------------------------------------
(* The state machine. *)

NoCall == [fn |-> "none"]
NoStep == [kind |-> "start"]

Init ==
    /\ pc = "new"
    /\ active = FALSE
    /\ call = NoCall
    /\ i = 0
    /\ limit = 0
    /\ limits = <<>>
    /\ created = [k \in 1..NumPeriods |-> 0]
    /\ indexed = {}
    /\ mixes = <<>>
    /\ step = NoStep

run_vars == <<i, limit, limits, created, indexed, mixes, step>>

\* __init__ (lines 35-40): ping the server, set the flag
Construct ==
    /\ pc = "new"
    /\ \E server \in ServerBehaviours :
         LET out == ping_server(server)
         IN  /\ call' = [fn |-> "ping_server", inp |-> [server |-> server], out |-> out,
                         timeout |-> PingTimeout]
             /\ pc' = IF out.kind = "return" THEN "idle" ELSE "unconstructed"
             /\ active' = (out.kind = "return" /\ out.value)
    /\ UNCHANGED run_vars

\* a call of get_track_mix on the idle plugin.  The plugin keeps no state
\* between calls, so a behaviour holds one direct call.
CallGetTrackMix ==
    /\ pc = "idle"
    /\ \E inp \in TrackMixInputs :
         LET repo == CallRepo(inp.vt)
         IN  \E out \in get_track_mix(active, SeedTracks(repo), repo, inp.server, inp.results) :
               call' = [fn |-> "get_track_mix", inp |-> inp, out |-> out,
                        timeout |-> RadioTimeout]
    /\ pc' = "returned"
    /\ UNCHANGED active
    /\ UNCHANGED run_vars

\* a call of fallback_create_artist_mix on the idle plugin
CallFallback ==
    /\ pc = "idle"
    /\ \E vt \in FixedTrackLists, sa \in SimilarLists, sr \in SimilarLists,
          omit \in SUBSET VarWeakHashes, lim \in 1..MaxLimit :
         \E out \in fallback_create_artist_mix(CallRepo(vt), sa, sr, omit, lim) :
           call' = [fn |-> "fallback_create_artist_mix",
                    inp |-> [vt |-> vt, similar_albums |-> sa, similar_artists |-> sr,
                             omit_trackhashes |-> omit, limit |-> lim],
                    out |-> out]
    /\ pc' = "returned"
    /\ UNCHANGED active
    /\ UNCHANGED run_vars

\* a call of download_artist_image on the idle plugin
CallDownloadArtistImage ==
    /\ pc = "idle"
    /\ \E server \in ServerBehaviours :
         call' = [fn |-> "download_artist_image", inp |-> [server |-> server],
                  out |-> download_artist_image(server), timeout |-> ImageTimeout]
    /\ pc' = "returned"
    /\ UNCHANGED active
    /\ UNCHANGED run_vars

\* a call of get_mix_description on the idle plugin
CallGetMixDescription ==
    /\ pc = "idle"
    /\ \E tracks \in DescTrackLists, artishash \in DescSubjects :
         call' = [fn |-> "get_mix_description",
                  inp |-> [tracks |-> tracks, artishash |-> artishash],
                  out |-> get_mix_description(tracks, artishash)]
    /\ pc' = "returned"
    /\ UNCHANGED active
    /\ UNCHANGED run_vars

\* a call of create_artist_mix on the idle plugin
CallCreateArtistMix ==
    /\ pc = "idle"
    /\ \E inp \in LengthInputs \cup ServerInputs, a \in ArtistHashes \cup RemovedArtists :
         \E out \in create_artist_mix(active, ArtistDict(a), CallRepo(inp.vt), inp.server,
                                      inp.results, ServerBehaviours) :
           call' = [fn |-> "create_artist_mix",
                    inp |-> [vt |-> inp.vt, results |-> inp.results, server |-> inp.server,
                             artisthash |-> a],
                    out |-> out]
    /\ pc' = "returned"
    /\ UNCHANGED active
    /\ UNCHANGED run_vars

\* create_artist_mixes is called (line 134): the decorator lets the body run
\* only on an active plugin
StartRun ==
    /\ pc = "idle"
    /\ call' = [fn |-> "create_artist_mixes"]
    /\ pc' = IF active THEN "enter" ELSE "done"
    /\ i' = IF active THEN 1 ELSE 0
    /\ UNCHANGED <<active, limit, limits, created, indexed, mixes, step>>

\* lines 166-174: the head of the outer loop
EnterWindow ==
    /\ pc = "enter"
    /\ limit' = PeriodLimit(i, created)
    /\ limits' = Append(limits, PeriodLimit(i, created))
    /\ step' = [kind |-> "enter"]
    /\ pc' = "loop"
    /\ UNCHANGED <<active, call, i, created, indexed, mixes>>

\* the inner loop ends, by break (line 178) or at the end of the list; after
\* the last window the method returns (line 191)
LeaveWindow ==
    /\ pc = "loop"
    /\ step' = [kind |-> IF QuotaReached(created, i, limit) THEN "break" ELSE "exhausted"]
    /\ IF i < NumPeriods
       THEN i' = i + 1 /\ pc' = "enter"
       ELSE i' = i /\ pc' = "done"
    /\ UNCHANGED <<active, call, limit, limits, created, indexed, mixes>>

\* lines 180-181: a candidate that already has a mix
SkipCandidate ==
    /\ pc = "loop"
    /\ ~QuotaReached(created, i, limit)
    /\ \E a \in Candidates(indexed) :
         /\ AlreadyIndexed(a, indexed)
         /\ step' = [kind |-> "skip"]
    /\ UNCHANGED <<pc, active, call, i, limit, limits, created, indexed, mixes>>

\* lines 183-188: a candidate create_artist_mix is called for
TryCandidate ==
    /\ pc = "loop"
    /\ ~QuotaReached(created, i, limit)
    /\ \E a \in Candidates(indexed) :
         /\ ~AlreadyIndexed(a, indexed)
         /\ \E server \in ServerBehaviours, results \in RunResults(a) :
              \E out \in create_artist_mix(active, ArtistDict(a), RunRepo, server, results,
                                           ServerBehaviours) :
                /\ step' = [kind |-> out.kind, artisthash |-> a, exc |-> out.exc]
                /\ mixes' = MixesAfter(mixes, out)
                /\ indexed' = IndexedAfter(indexed, a, out)
                /\ created' = CreatedAfter(created, i, out)
                /\ pc' = CASE out.kind = "raise" -> "crashed"
                           [] out.kind = "blocked" -> "blocked"
                           [] OTHER -> "loop"
    /\ UNCHANGED <<active, call, i, limit, limits>>

Next ==
    \/ Construct
    \/ CallGetTrackMix
    \/ CallFallback
    \/ CallDownloadArtistImage
    \/ CallCreateArtistMix
    \/ CallGetMixDescription
    \/ StartRun
    \/ EnterWindow
    \/ LeaveWindow
    \/ SkipCandidate
    \/ TryCandidate

Spec == Init /\ [][Next]_vars

---------------------------------------------------------------------------
(* Properties. *)

Max0(n) == IF n > 0 THEN n ELSE 0

RECURSIVE SumTo(_, _)
SumTo(made, k) == IF k = 0 THEN 0 ELSE SumTo(made, k - 1) + made[k]

\* the limit the claim states for window k
StatedLimit(k) ==
    IF k = 1 THEN PeriodMax[1]
    ELSE PeriodMax[k] + Max0(PeriodMax[k - 1] - created[k - 1])

(* C1: the windows are processed in the order today (3), last_2_days (2),    *)
(* last_7_days (3), last_1_month (2); every window entered so far got the    *)
(* limit cap_k + max(0, cap_(k-1) - created_(k-1)) (cap_1 for the first) and *)
(* created no more mixes than that; a window not yet entered created none.   *)
(* When today created 1 mix, the limit of last_2_days is 4.                  *)
C1_QuotaWithinLimit ==
    /\ PeriodNames = <<"today", "last_2_days", "last_7_days", "last_1_month">>
    /\ PeriodMax = <<3, 2, 3, 2>>
    /\ pc \in {"enter", "loop"} => i \in 1..NumPeriods
    /\ pc = "enter" => Len(limits) = i - 1
    /\ pc = "loop" => Len(limits) = i /\ limit = limits[i]
    /\ \A k \in 1..NumPeriods :
         IF k <= Len(limits)
         THEN limits[k] = StatedLimit(k) /\ created[k] <= limits[k]
         ELSE created[k] = 0
    /\ (Len(limits) >= 2 /\ created[1] = 1) => limits[2] = 4

\* today created 1 of 3, and last_2_days used its whole limit of 4
C1_Witness ==
    /\ Len(limits) >= 2
    /\ created[1] = 1
    /\ limits[2] = 4
    /\ created[2] = 4

(* C2: no two mixes of the run are about the same artist, so their ids      *)
(* 'a' + artisthash are pairwise distinct.                                   *)
C2_OneMixPerArtist ==
    \A p, q \in 1..Len(mixes) :
        p # q => /\ mixes[p].extra.artisthash # mixes[q].extra.artisthash
                 /\ mixes[p].id # mixes[q].id

\* a later window lists an artist that got its mix in an earlier window
C2_Witness ==
    /\ step.kind = "skip"
    /\ i > 1
    /\ created[i] = 0
    /\ Len(mixes) >= 2

\* what one step of the run may do to the counters, the indexed set and the list
C3_StepFrame ==
    /\ (pc = "loop" /\ step'.kind \in {"none", "skip", "break", "exhausted"})
          => (created' = created /\ indexed' = indexed /\ mixes' = mixes)
    /\ (pc = "loop" /\ step'.kind = "mix")
          => /\ created' = [created EXCEPT ![i] = @ + 1]
             /\ indexed' = indexed \cup {step'.artisthash}
             /\ step'.artisthash \notin indexed
             /\ Len(mixes') = Len(mixes) + 1
             /\ SubSeq(mixes', 1, Len(mixes)) = mixes
             /\ mixes'[Len(mixes')].extra.artisthash = step'.artisthash
    /\ Len(mixes') = SumTo(created', NumPeriods)
    /\ Len(mixes') = Cardinality(indexed')

(* C3: a candidate for which create_artist_mix returns no Mix leaves the    *)
(* window's counter, the indexed set and the list of mixes unchanged; one    *)
(* for which it returns a Mix adds one to the counter, the artisthash to     *)
(* indexed and the Mix to the list; after every step                         *)
(* len(mixes) = the sum of the counters = the size of indexed.               *)
C3_CountOnlyOnSuccess == [][C3_StepFrame]_vars

\* a candidate failed after another one had got its mix
C3_Witness ==
    /\ step.kind = "none"
    /\ step.artisthash \in 1..NumArtists
    /\ Len(mixes) >= 1
    /\ step.artisthash \notin indexed

(* C4: create_artist_mix returns a Mix only for an artist of the artist      *)
(* repository whose tracklist has at least MIN_TRACK_MIX_LENGTH (15) tracks, *)
(* and every Mix of a run has at least 15 tracks.                            *)
C4_MixOnlyWhenLongEnough ==
    /\ call.fn = "create_artist_mix" =>
         LET present == get_artist_by_hash(CallRepo(call.inp.vt), call.inp.artisthash) # <<>>
         IN  /\ call.out.kind = "mix" =>
                  /\ present
                  /\ Len(call.out.tracklist) >= 15
                  /\ Len(call.out.mix.tracks) = Len(call.out.tracklist)
             /\ (~present \/ Len(call.out.tracklist) < 15) => call.out.mix = NoMix
    /\ \A p \in 1..Len(mixes) : Len(mixes[p].tracks) >= 15

\* a mix of exactly the minimum length was made
C4_Witness ==
    /\ call.fn = "create_artist_mix"
    /\ call.out.kind = "mix"
    /\ Len(call.out.mix.tracks) = 15

Distinct(hashes) == \A p, q \in 1..Len(hashes) : p # q => hashes[p] # hashes[q]

WeakHashList(tracks) == [k \in 1..Len(tracks) |-> tracks[k].weakhash]

(* C5: the list get_track_mix builds, the deduplicated remote matches        *)
(* followed by the tracks of the fallback sampler, has pairwise distinct     *)
(* weak hashes, and so has the list it returns.                              *)
C5_NoDuplicateWeakHash ==
    (call.fn = "get_track_mix" /\ call.out.kind = "return")
        => /\ Distinct(WeakHashList(call.out.trackmatches \o call.out.filler))
           /\ Distinct(WeakHashList(call.out.value))

(* C6: the list get_track_mix returns has at most TRACK_MIX_LENGTH (50)      *)
(* tracks, and exactly 50 when the response resolves to more than 50.        *)
C6_CappedAtMixLength ==
    (call.fn = "get_track_mix" /\ call.out.kind = "return")
        => /\ Len(call.out.value) <= 50
           /\ Len(call.out.trackmatches) > 50 => Len(call.out.value) = 50

(* C7: fallback_create_artist_mix returns at most limit tracks and no track  *)
(* whose weak hash is in the omit set, called directly with any limit >= 1   *)
(* and called by get_track_mix with the remote matches to omit.              *)
C7_FallbackWithinLimit ==
    /\ call.fn = "fallback_create_artist_mix" =>
         /\ Len(call.out) <= call.inp.limit
         /\ \A k \in 1..Len(call.out) :
              call.out[k].weakhash \notin call.inp.omit_trackhashes
    /\ (call.fn = "get_track_mix" /\ call.out.fallback) =>
         /\ Len(call.out.filler) <= TRACK_MIX_LENGTH - Len(call.out.trackmatches)
         /\ \A k \in 1..Len(call.out.filler) :
              call.out.filler[k].weakhash \notin WeakHashes(call.out.trackmatches)

\* one album matched, so the second track came from the artist phase, and it
\* filled the limit; a weak hash was omitted
C7_Witness ==
    /\ call.fn = "fallback_create_artist_mix"
    /\ call.inp.similar_albums = <<1>>
    /\ call.inp.similar_artists = <<2, 1>>
    /\ call.inp.omit_trackhashes # {}
    /\ call.inp.limit = 2
    /\ Len(call.out) = 2

(* C8: the remote-derived list is one track per weak hash of the response    *)
(* that has a local track, in the order of the first appearance of the weak  *)
(* hashes in the response, and each is a local track of that weak hash of    *)
(* the highest bitrate.                                                      *)
C8_RemotePartIsReference ==
    (call.fn = "get_track_mix" /\ call.out.posted /\ call.inp.server = "ok"
       /\ call.inp.results.tracks # <<>>) =>
        LET flat == CallRepo(call.inp.vt).tracks
            resp == call.inp.results.tracks
            tm == call.out.trackmatches
            firsts == SelectSeq([p \in 1..Len(resp) |-> p],
                                LAMBDA p : /\ \A q \in 1..(p - 1) : resp[q] # resp[p]
                                           /\ \E j \in 1..Len(flat) : flat[j].weakhash = resp[p])
        IN  /\ Len(tm) = Len(firsts)
            /\ \A k \in 1..Len(tm) :
                 /\ tm[k].weakhash = resp[firsts[k]]
                 /\ \E j \in 1..Len(flat) : flat[j] = tm[k]
                 /\ \A j \in 1..Len(flat) :
                      flat[j].weakhash = tm[k].weakhash => flat[j].bitrate <= tm[k].bitrate

\* the response order differs from the repository order, and the best track
\* of a group is not the first of the group
C8_Witness ==
    /\ call.fn = "get_track_mix"
    /\ call.out.posted
    /\ call.inp.server = "ok"
    /\ Len(call.out.trackmatches) = 2
    /\ call.out.trackmatches[1].trackhash > call.out.trackmatches[2].trackhash
    /\ \E j \in 1..Len(call.inp.vt) :
         /\ j < call.out.trackmatches[2].trackhash
         /\ call.inp.vt[j][1] = call.out.trackmatches[2].weakhash
         /\ call.inp.vt[j][2] < call.out.trackmatches[2].bitrate

\* the failures of an outbound call: connection failure, timeout, and, where
\* the payload is decoded, an undecodable payload
ConnectionFailures == {"refused", "no_route", "stall"}

(* C9: every outbound call is made with a timeout of 10 s, and on a          *)
(* connection failure, a timeout or an undecodable payload get_track_mix     *)
(* returns the empty list, ping_server returns False and                     *)
(* download_artist_image returns None.                                       *)
C9_HttpFailuresAreContained ==
    /\ call.fn \in {"ping_server", "get_track_mix", "download_artist_image"}
         => call.timeout = [bounded |-> TRUE, seconds |-> 10]
    /\ (call.fn = "ping_server" /\ call.inp.server \in ConnectionFailures)
         => (call.out.kind = "return" /\ call.out.value = FALSE)
    /\ (call.fn = "get_track_mix" /\ call.inp.server \in ConnectionFailures \cup {"garbage"})
         => (call.out.kind = "return" /\ call.out.value = <<>>)
    /\ (call.fn = "download_artist_image"
          /\ call.inp.server \in ConnectionFailures \cup {"garbage"})
         => (call.out.kind = "return" /\ call.out.value = <<>>)

PrimaryArtists(tracks) == [k \in 1..Len(tracks) |-> tracks[k].artists[1]]

CoArtistPositions(tracks, artishash) ==
    LET prim == PrimaryArtists(tracks)
    IN  SelectSeq([k \in 1..Len(tracks) |-> k],
                  LAMBDA k : /\ prim[k].artisthash # artishash
                             /\ \A j \in 1..(k - 1) : prim[j].artisthash # prim[k].artisthash)

(* C11: for a tracklist with a first track, get_mix_description names the    *)
(* first artists of the tracks that are not the subject, each artisthash     *)
(* once, in tracklist order, at most 4: 'Featuring A, B, C, D and more' with *)
(* 4, 'Featuring ' and the names separated by ', ' with 1 to 3, and          *)
(* 'Featuring ' and the name of the first artist of the first track with     *)
(* none.                                                                     *)
C11_DescriptionNamesFirstFour ==
    (call.fn = "get_mix_description" /\ call.inp.tracks # <<>>) =>
        LET prim == PrimaryArtists(call.inp.tracks)
            pos == CoArtistPositions(call.inp.tracks, call.inp.artishash)
            n(j) == prim[pos[j]].name
        IN  /\ call.out.kind = "return"
            /\ call.out.value =
                 CASE Len(pos) = 0 -> <<"Featuring ", prim[1].name>>
                   [] Len(pos) = 1 -> <<"Featuring ", n(1)>>
                   [] Len(pos) = 2 -> <<"Featuring ", n(1), ", ", n(2)>>
                   [] Len(pos) = 3 -> <<"Featuring ", n(1), ", ", n(2), ", ", n(3)>>
                   [] OTHER -> <<"Featuring ", n(1), ", ", n(2), ", ", n(3), ", ", n(4),
                                 " and more">>

\* five co-artists, two of them of the same name: the first four are named, both
\* namesakes among them, and the fifth is left out
C11_Witness ==
    /\ call.fn = "get_mix_description"
    /\ call.inp.artishash = 1
    /\ Len(call.inp.tracks) = 5
    /\ Len(CoArtistPositions(call.inp.tracks, call.inp.artishash)) = 5
    /\ call.out.value = <<"Featuring ", "E", ", ", "B", ", ", "B", ", ", "C", " and more">>

(* C12: what a window adds to the limit of the next one is its own cap minus *)
(* what it created, and nothing when it created at least its cap, whatever   *)
(* it had taken over itself; the windows 1..k together never created more    *)
(* than the sum of their caps, and a run creates at most 3 + 2 + 3 + 2 = 10  *)
(* mixes.                                                                    *)
C12_CarryOverIsSingleStep ==
    /\ \A k \in 2..Len(limits) :
         /\ created[k - 1] >= PeriodMax[k - 1] => limits[k] = PeriodMax[k]
         /\ created[k - 1] < PeriodMax[k - 1]
              => limits[k] = PeriodMax[k] + PeriodMax[k - 1] - created[k - 1]
         /\ limits[k] <= PeriodMax[k] + PeriodMax[k - 1]
    /\ \A k \in 1..NumPeriods : SumTo(created, k) <= SumTo(PeriodMax, k)
    /\ SumTo(PeriodMax, NumPeriods) = 10
    /\ SumTo(created, NumPeriods) <= 10
    /\ Len(mixes) <= 10

\* a finished run of 10 mixes in which last_2_days took over 2 from today,
\* created 4, and passed nothing on to last_7_days
C12_Witness ==
    /\ pc = "done"
    /\ created = <<1, 4, 3, 2>>
    /\ limits = <<3, 4, 3, 2>>
    /\ Len(mixes) = 10

====
